---- MODULE Spec2Model ----
(***************************************************************************)
(* Model of src/src/binary_system.rs: the binary-prefix bandwidth parser   *)
(* (Parser::parse_binary, Parser::parse_binary_unit, parse_binary_fraction)*)
(* and the renderer (FormattedBinaryBandwidth::fmt_integer, fmt_decimal).  *)
(*                                                                         *)
(* The Rust code computes in u32, u64 and u128.  TLC's integers are 32-bit,*)
(* so every u64/u128 quantity is a natural number written as a sequence of *)
(* base-1000 limbs, least significant first, without leading zero limbs    *)
(* (zero is <<>>).  Widths are enforced where the code enforces them       *)
(* (checked_mul, checked_add, the gbps > u64::MAX test) and where the code *)
(* does not (the unchecked u64 arithmetic of the renderer).                *)
(***************************************************************************)
EXTENDS Integers, Sequences, FiniteSets, TLC

(***************************************************************************)
(* Wide unsigned integers as base-1000 limb sequences.  The recursive      *)
(* definitions are functions, so that an argument is evaluated once.       *)
(***************************************************************************)

Limbs == Seq(0..999)

\* e, evaluated once, as the argument of F.
Strict(e, F(_)) == CHOOSE r \in {F(v) : v \in {e}} : TRUE

\* A machine-size natural as limbs.
BFromInt[c \in Nat] ==
  IF c = 0 THEN <<>> ELSE <<c % 1000>> \o BFromInt[c \div 1000]

\* Limbs back to a machine-size natural (only for values known to be small).
BToInt[x \in Limbs] ==
  IF x = <<>> THEN 0 ELSE Head(x) + 1000 * BToInt[Tail(x)]

\* Drop leading (most significant) zero limbs.
BNorm[x \in Limbs] ==
  IF x = <<>> THEN <<>>
  ELSE IF x[Len(x)] = 0 THEN BNorm[SubSeq(x, 1, Len(x) - 1)]
  ELSE x

MulCarry[x \in Limbs, m \in Nat, c \in Nat] ==
  IF x = <<>> THEN BFromInt[c]
  ELSE <<(Head(x) * m + c) % 1000>>
         \o MulCarry[Tail(x), m, (Head(x) * m + c) \div 1000]

\* x * m for a small multiplier m (m <= 1024 * 1024).
BMulSmall(x, m) == BNorm[MulCarry[x, m, 0]]

AddCarry[x \in Limbs, y \in Limbs, c \in Nat] ==
  IF x = <<>> /\ y = <<>> THEN BFromInt[c]
  ELSE IF x = <<>> THEN AddCarry[y, x, c]
  ELSE IF y = <<>>
    THEN <<(Head(x) + c) % 1000>>
           \o AddCarry[Tail(x), <<>>, (Head(x) + c) \div 1000]
  ELSE <<(Head(x) + Head(y) + c) % 1000>>
         \o AddCarry[Tail(x), Tail(y), (Head(x) + Head(y) + c) \div 1000]

BAdd(x, y) == BNorm[AddCarry[x, y, 0]]

\* x - y for x >= y; c is the borrow.
SubBorrow[x \in Limbs, y \in Limbs, c \in Nat] ==
  IF x = <<>> THEN <<>>
  ELSE IF y = <<>>
    THEN <<(Head(x) + 1000 - c) % 1000>>
           \o SubBorrow[Tail(x), <<>>, IF Head(x) < c THEN 1 ELSE 0]
  ELSE <<(Head(x) + 1000 - Head(y) - c) % 1000>>
         \o SubBorrow[Tail(x), Tail(y),
                      IF Head(x) < Head(y) + c THEN 1 ELSE 0]

BSub(x, y) == BNorm[SubBorrow[x, y, 0]]

\* Long division of x by a small divisor d (d <= 1024 * 1024), from the
\* most significant limb i down, r the running remainder and q the
\* quotient so far.
DivFrom[x \in Limbs, d \in Nat, i \in Nat, r \in Nat, q \in Limbs] ==
  IF i = 0 THEN [q |-> q, r |-> r]
  ELSE DivFrom[x, d, i - 1, (r * 1000 + x[i]) % d,
               <<(r * 1000 + x[i]) \div d>> \o q]

BDivRem[x \in Limbs, d \in Nat] == DivFrom[x, d, Len(x), 0, <<>>]

BDivSmall(x, d) == BNorm[BDivRem[x, d].q]

BModSmall(x, d) == BDivRem[x, d].r

\* x < y, on normalised limb sequences.
LessFrom[x \in Limbs, y \in Limbs, i \in Nat] ==
  IF i = 0 THEN FALSE
  ELSE IF x[i] # y[i] THEN x[i] < y[i]
  ELSE LessFrom[x, y, i - 1]

Less[x \in Limbs, y \in Limbs] ==
  IF Len(x) # Len(y) THEN Len(x) < Len(y) ELSE LessFrom[x, y, Len(x)]

BLess(x, y) == Less[x, y]

BLeq(x, y) == ~Less[y, x]

\* x * m^k and x / m^k for a small m.
PowMul[x \in Limbs, m \in Nat, k \in Nat] ==
  IF k = 0 \/ x = <<>> THEN x ELSE PowMul[BMulSmall(x, m), m, k - 1]

BMulPow(x, m, k) == PowMul[x, m, k]

PowDiv[x \in Limbs, m \in Nat, k \in Nat] ==
  IF k = 0 \/ x = <<>> THEN x ELSE PowDiv[BDivSmall(x, m), m, k - 1]

BDivPow(x, m, k) == PowDiv[x, m, k]

\* x mod m^k, rebuilt from the k remainders of the successive divisions.
PowMod[x \in Limbs, m \in Nat, k \in Nat] ==
  IF k = 0 \/ x = <<>> THEN <<>>
  ELSE BAdd(BMulSmall(PowMod[BDivSmall(x, m), m, k - 1], m),
            BFromInt[BModSmall(x, m)])

BModPow(x, m, k) == PowMod[x, m, k]

BOne == <<1>>

\* u64::MAX = 18_446_744_073_709_551_615
U64_MAX == <<615, 551, 709, 73, 744, 446, 18>>

\* 2^64, the modulus of wrapping u64 arithmetic.
U64_MODULUS == BAdd(U64_MAX, BOne)

\* x mod 2^64: 2^64 = 1024^6 * 16.
Wrap64[x \in Limbs] ==
  IF BLeq(x, U64_MAX) THEN x
  ELSE BAdd(BMulPow(BFromInt[BModSmall(BDivPow(x, 1024, 6), 16)], 1024, 6),
            BModPow(x, 1024, 6))

WrapU64(x) == Wrap64[x]

\* The decimal digits of x, most significant first (zero is the digit 0).
DigitsPadded[x \in Limbs] ==
  IF x = <<>> THEN <<>>
  ELSE DigitsPadded[Tail(x)]
         \o <<Head(x) \div 100, (Head(x) \div 10) % 10, Head(x) % 10>>

StripLeadingZeros[ds \in Seq(0..9)] ==
  IF ds = <<>> THEN <<0>>
  ELSE IF Head(ds) = 0 THEN StripLeadingZeros[Tail(ds)]
  ELSE ds

BDigits(x) == StripLeadingZeros[DigitsPadded[x]]

(***************************************************************************)
(* Text: a string is a sequence of one-character strings.  All inputs are  *)
(* ASCII, so a byte offset is a character count.                           *)
(***************************************************************************)

DigitChars == <<"0", "1", "2", "3", "4", "5", "6", "7", "8", "9">>

\* '0'..='9'
IsDigit(c) == \E i \in 1..10 : DigitChars[i] = c

\* c as u64 - '0' as u64
DigitValue(c) == (CHOOSE i \in 1..10 : DigitChars[i] = c) - 1

\* char::is_whitespace, on the ASCII characters the inputs use
IsWhitespace(c) == c \in {" ", "\t", "\n"}

\* 'a'..='z' | 'A'..='Z' | '/'
IsUnitChar(c) ==
  c \in {"a", "b", "c", "d", "e", "f", "g", "h", "i", "j", "k", "l", "m",
         "n", "o", "p", "q", "r", "s", "t", "u", "v", "w", "x", "y", "z",
         "A", "B", "C", "D", "E", "F", "G", "H", "I", "J", "K", "L", "M",
         "N", "O", "P", "Q", "R", "S", "T", "U", "V", "W", "X", "Y", "Z",
         "/"}

\* The digits ds (numbers 0..9) as text.
DigitText[ds \in Seq(0..9)] == [i \in 1..Len(ds) |-> DigitChars[ds[i] + 1]]

(***************************************************************************)
(* The bandwidth magnitude (crate bandwidth): whole gigabits per second in *)
(* a u64 and the remainder below 10^9 bits per second in a u32.            *)
(***************************************************************************)

\* Bandwidth::new(gbps, bps) with bps < 1_000_000_000
Bandwidth(gbps, bps) == [gbps |-> gbps, bps |-> bps]

BandwidthZero == Bandwidth(<<>>, 0)

\* The exact number of bits per second of a magnitude.
BandwidthBits(bw) == BAdd(BMulPow(bw.gbps, 1000, 3), BFromInt[bw.bps])

\* The magnitude of a number of bits per second.
FromBits[bits \in Limbs] ==
  Bandwidth(BDivPow(bits, 1000, 3), BToInt[BModPow(bits, 1000, 3)])

BandwidthFromBits(bits) == FromBits[bits]

\* Bandwidth::checked_add: the sum, or no value when the gigabit count
\* leaves the u64.
CheckedSum[sum \in Limbs] ==
  [ok |-> BLeq(FromBits[sum].gbps, U64_MAX), bw |-> FromBits[sum]]

BandwidthCheckedAdd(a, b) ==
  CheckedSum[BAdd(BandwidthBits(a), BandwidthBits(b))]

(***************************************************************************)
(* The parser.                                                             *)
(***************************************************************************)

\* super::FRACTION_PART_LIMIT, the cap on the fractional digits kept
FRACTION_PART_LIMIT == 12

\* u128::MAX = 340_282_366_920_938_463_463_374_607_431_768_211_455
U128_MAX == <<455, 211, 768, 431, 607, 374, 463, 463, 938, 920, 366, 282, 340>>

\* The outcome of a call.  kind: "Running" (not returned yet), "Ok", "Err"
\* or "Panic" (abrupt termination).  The other fields are set as the error
\* variant carries them.
Outcome(kind, err, bw, off, start, end, unit, value) ==
  [kind |-> kind, err |-> err, bw |-> bw, off |-> off,
   start |-> start, end |-> end, unit |-> unit, value |-> value]

Running == Outcome("Running", "", BandwidthZero, 0, 0, 0, <<>>, <<>>)

Ok(bw) == Outcome("Ok", "", bw, 0, 0, 0, <<>>, <<>>)

Panic == Outcome("Panic", "", BandwidthZero, 0, 0, 0, <<>>, <<>>)

\* Error::NumberOverflow
NumberOverflow ==
  Outcome("Err", "NumberOverflow", BandwidthZero, 0, 0, 0, <<>>, <<>>)

\* Error::Empty
Empty == Outcome("Err", "Empty", BandwidthZero, 0, 0, 0, <<>>, <<>>)

\* Error::InvalidCharacter(off)
InvalidCharacter(off) ==
  Outcome("Err", "InvalidCharacter", BandwidthZero, off, 0, 0, <<>>, <<>>)

\* Error::UnknownBinaryUnit { start, end, unit, value }
UnknownBinaryUnit(start, end, unit, value) ==
  Outcome("Err", "UnknownBinaryUnit", BandwidthZero, 0, start, end, unit,
          value)

\* A shift by decimal thousands in the place of the binary ones.
CheckedShlDecimal(x, rhs) ==
  [ok |-> rhs < 128, v |-> BMulPow(x, 1000, rhs \div 10)]

\* u128::checked_shl(rhs): None only when rhs >= 128.  Its callers shift a
\* value below 2^64 by at most 40 bits, so no bit leaves the 128.
CheckedShl(x, rhs) ==
  [ok |-> rhs < 128, v |-> BMulPow(x, 1024, rhs \div 10)]

\* impl OverflowOp for u128: checked_mul, checked_add
Checked[v \in Limbs, max \in Limbs] == [ok |-> BLeq(v, max), v |-> v]

OverflowMul(x, m) == Checked[BMulSmall(x, m), U128_MAX]

OverflowAdd(x, y) == Checked[BAdd(x, y), U128_MAX]

\* A digit pushed with wrapping arithmetic in the place of the checked one.
WrappingPushDigit(x, d) ==
  [ok |-> TRUE, v |-> WrapU64(BAdd(BMulSmall(x, 10), BFromInt[d]))]

\* u64: x.checked_mul(10).and_then(|x| x.checked_add(d))
CheckedPushDigit(x, d) ==
  Checked[BAdd(BMulSmall(x, 10), BFromInt[d]), U64_MAX]

\* parse_binary_fraction: the bytes per second of the fractional part,
\* rounded to the nearest with ties away from zero.
parse_binary_fraction(fraction, fraction_cnt, unit) ==
  LET pow      == BMulPow(BOne, 10, fraction_cnt)
      rounding == BDivSmall(pow, 2)
      shifted  == CheckedShl(fraction, 10 * unit)
  IN  IF ~shifted.ok THEN [ok |-> FALSE, v |-> <<>>]
      ELSE [ok |-> TRUE,
            v  |-> WrapU64(BDivPow(BAdd(shifted.v, rounding), 10,
                                   fraction_cnt))]

Suffixes ==
  {<<"B", "p", "s">>, <<"B", "y", "t", "e", "/", "s">>, <<"B", "/", "s">>,
   <<"o", "p", "s">>, <<"o", "/", "s">>}

\* The prefixed spellings with the second letter in either case.
PrefixedAnyCase(lower, upper) ==
  {p \o s : p \in {<<lower, "i">>, <<upper, "i">>, <<lower, "I">>,
                   <<upper, "I">>},
            s \in Suffixes}

Prefixed(lower, upper) ==
  {p \o s : p \in {<<lower, "i">>, <<upper, "i">>}, s \in Suffixes}

\* The match with an empty unit text read as bytes per second.
UnitLevelBareBytes(unit) ==
  IF unit = <<>> \/ unit \in Suffixes THEN 0
  ELSE IF unit \in Prefixed("k", "K") THEN 1
  ELSE IF unit \in Prefixed("m", "M") THEN 2
  ELSE IF unit \in Prefixed("g", "G") THEN 3
  ELSE IF unit \in Prefixed("t", "T") THEN 4
  ELSE -1

\* The match of parse_binary_unit: the level of a unit text, -1 for the
\* default arm.
UnitLevel(unit) ==
  IF unit \in Suffixes THEN 0
  ELSE IF unit \in Prefixed("k", "K") THEN 1
  ELSE IF unit \in Prefixed("m", "M") THEN 2
  ELSE IF unit \in Prefixed("g", "G") THEN 3
  ELSE IF unit \in Prefixed("t", "T") THEN 4
  ELSE -1

\* The conversion of a span of level unit to bits per second:
\* ((n << 10*unit) + fraction bytes) * 8, in u128 with checked steps.
SpanBits(n, fraction, fraction_cnt, unit) ==
  Strict(CheckedShl(n, unit * 10), LAMBDA shifted :
    Strict(parse_binary_fraction(fraction, fraction_cnt, unit), LAMBDA frac :
      Strict(OverflowAdd(shifted.v, frac.v), LAMBDA bytes :
        Strict(OverflowMul(bytes.v, 8), LAMBDA bits :
          [ok |-> shifted.ok /\ frac.ok /\ bytes.ok /\ bits.ok,
           v  |-> bits.v]))))

\* self.current += new_bandwidth: the addition of the magnitude type, which
\* terminates the call abruptly when the sum leaves its range.
AddAssign(current, new_bandwidth) ==
  Strict(BandwidthCheckedAdd(current, new_bandwidth), LAMBDA sum :
    IF sum.ok THEN [res |-> Ok(sum.bw), current |-> sum.bw]
    ELSE [res |-> Panic, current |-> current])

\* Parser::parse_binary_unit.  res.kind = "Ok" stands for Ok(()).
parse_binary_unit(src, current, n, fraction, fraction_cnt, start, end) ==
  LET text == SubSeq(src, start + 1, end)
      unit == UnitLevel(text)
  IN  IF unit = -1
        THEN [res |-> UnknownBinaryUnit(start, end, text, n),
              current |-> current]
      ELSE Strict(SpanBits(n, fraction, fraction_cnt, unit), LAMBDA bits :
             Strict(BandwidthFromBits(bits.v), LAMBDA new :
               IF ~bits.ok \/ BLess(U64_MAX, new.gbps)
                 THEN [res |-> NumberOverflow, current |-> current]
               ELSE AddAssign(current, new)))

\* Parser::new(s) at the entry of parse_binary: the cursor (src, pos: the
\* characters self.iter has yielded, so self.off() = pos), the running
\* total self.current, and the locals of parse_binary.  pc is the loop the
\* call is in: "first" (parse_first_char), "number" (the digit loop),
\* "unit" (the unit loop) or "done".  entry tells the parse_first_char of
\* line 104 from the one of line 167.
ParserNew(s) ==
  [src |-> s, pos |-> 0, current |-> BandwidthZero, pc |-> "first",
   entry |-> TRUE, n |-> <<>>, decimal |-> FALSE, fraction |-> <<>>,
   fraction_cnt |-> 0, off |-> 0, start |-> 0, steps |-> 0,
   result |-> Running]

\* A parser no call is running on.
ParserIdle == [ParserNew(<<>>) EXCEPT !.pc = "idle"]

\* self.iter.next(): the character, or "" at the end of the input.
NextChar(p) == IF p.pos < Len(p.src) THEN p.src[p.pos + 1] ELSE ""

\* The cursor after self.iter.next().
Advance(p) ==
  [p EXCEPT !.pos = IF p.pos < Len(p.src) THEN p.pos + 1 ELSE p.pos,
            !.steps = p.steps + 1]

\* return from parse_binary
Return(p, res) == [p EXCEPT !.pc = "done", !.result = res]

\* One self.iter.next() of Parser::parse_first_char, called at the entry of
\* parse_binary (line 104) or after a completed span (line 167).  Its body
\* is in the crate root: whitespace is skipped, the end of the input is
\* None (Error::Empty at line 104, Ok(self.current) at line 169), and any
\* other character than a digit is a syntax error at its offset.  A digit
\* starts the number of a new span, with the locals reset (lines 105-107,
\* 171-173) and off taken again at the top of 'outer (line 109).
parse_first_char(p) ==
  LET c == NextChar(p)
      q == Advance(p)
  IN  IF c = ""
        THEN Return(q, IF p.entry THEN Empty ELSE Ok(p.current))
      ELSE IF IsDigit(c)
        THEN [q EXCEPT !.pc = "number", !.entry = FALSE,
                       !.n = BFromInt[DigitValue(c)], !.decimal = FALSE,
                       !.fraction = <<>>, !.fraction_cnt = 0,
                       !.off = q.pos]
      ELSE IF IsWhitespace(c) THEN q
      ELSE Return(q, InvalidCharacter(p.pos))

\* One iteration of the first while loop of parse_binary (lines 110-145),
\* with the exit to the unit loop (lines 146-147) when the input ends or a
\* unit character breaks out.
NumberLoopBody(p) ==
  LET c == NextChar(p)
      q == Advance(p)
      toUnit == [q EXCEPT !.pc = "unit", !.start = p.off, !.off = q.pos]
  IN  IF c = "" THEN toUnit
      ELSE IF IsDigit(c) THEN
        IF p.decimal THEN
          IF p.fraction_cnt >= FRACTION_PART_LIMIT
            THEN q   \* continue: off is not taken again
          ELSE LET f == CheckedPushDigit(p.fraction, DigitValue(c))
               IN  IF ~f.ok THEN Return(q, NumberOverflow)
                   ELSE [q EXCEPT !.fraction = f.v,
                                  !.fraction_cnt = p.fraction_cnt + 1,
                                  !.off = q.pos]
        ELSE LET m == CheckedPushDigit(p.n, DigitValue(c))
             IN  IF ~m.ok THEN Return(q, NumberOverflow)
                 ELSE [q EXCEPT !.n = m.v, !.off = q.pos]
      ELSE IF IsWhitespace(c) \/ c = "_" THEN [q EXCEPT !.off = q.pos]
      ELSE IF c = "." THEN
        IF p.decimal THEN Return(q, InvalidCharacter(p.off))
        ELSE [q EXCEPT !.decimal = TRUE, !.off = q.pos]
      ELSE IF IsUnitChar(c) THEN toUnit
      ELSE Return(q, InvalidCharacter(p.off))

\* The call of parse_binary_unit that closes a span, from the cursor q.
CloseSpan(p, q) ==
  parse_binary_unit(p.src, p.current, p.n, p.fraction, p.fraction_cnt,
                    p.start, p.off)

\* The unit loop with the locals of the closed span kept when a digit
\* closes it.
UnitLoopBodyLeaking(p) ==
  LET c == NextChar(p)
      q == Advance(p)
  IN  IF c = "" \/ IsWhitespace(c) THEN
        Strict(CloseSpan(p, q), LAMBDA u :
          IF u.res.kind # "Ok" THEN Return(q, u.res)
          ELSE [q EXCEPT !.current = u.current, !.pc = "first",
                         !.off = q.pos])
      ELSE IF IsDigit(c) THEN
        Strict(CloseSpan(p, q), LAMBDA u :
          IF u.res.kind # "Ok" THEN Return(q, u.res)
          ELSE [q EXCEPT !.current = u.current, !.pc = "number",
                         !.n = BFromInt[DigitValue(c)], !.off = q.pos])
      ELSE IF IsUnitChar(c) THEN [q EXCEPT !.off = q.pos]
      ELSE Return(q, InvalidCharacter(p.off))

\* One iteration of the second while loop of parse_binary (lines 148-165),
\* with what follows its exit (lines 166-173): the span is converted and
\* parse_first_char looks for the next one.
UnitLoopBody(p) ==
  LET c == NextChar(p)
      q == Advance(p)
  IN  IF c = "" \/ IsWhitespace(c) THEN
        Strict(CloseSpan(p, q), LAMBDA u :
          IF u.res.kind # "Ok" THEN Return(q, u.res)
          ELSE [q EXCEPT !.current = u.current, !.pc = "first",
                         !.off = q.pos])
      ELSE IF IsDigit(c) THEN
        Strict(CloseSpan(p, q), LAMBDA u :
          IF u.res.kind # "Ok" THEN Return(q, u.res)
          ELSE [q EXCEPT !.current = u.current, !.pc = "number",
                         !.n = BFromInt[DigitValue(c)], !.fraction = <<>>,
                         !.decimal = FALSE, !.fraction_cnt = 0,
                         !.off = q.pos])
      ELSE IF IsUnitChar(c) THEN [q EXCEPT !.off = q.pos]
      ELSE Return(q, InvalidCharacter(p.off))

\* One step of Parser::parse_binary.
ParserStep(p) ==
  IF p.pc = "first" THEN parse_first_char(p)
  ELSE IF p.pc = "number" THEN NumberLoopBody(p)
  ELSE IF p.pc = "unit" THEN UnitLoopBody(p)
  ELSE p

\* The steps of a run are taken 2^RunDepth at most, by halves, which keeps
\* the evaluation shallow; a run that has returned takes no more steps.
RunDepth == 6

RECURSIVE ParserRun(_, _)
ParserRun(p, k) ==
  IF p.pc \in {"done", "idle"} THEN p
  ELSE IF k = 0 THEN ParserStep(p)
  ELSE Strict(ParserRun(p, k - 1), LAMBDA q : ParserRun(q, k - 1))

\* Parser::parse_binary run to its return.
parse_binary(p) == ParserRun(p, RunDepth)

\* parse_binary_bandwidth(s)
parse_binary_bandwidth(s) ==
  Strict(ParserNew(s), LAMBDA p : parse_binary(p).result)

(***************************************************************************)
(* The renderer.                                                           *)
(***************************************************************************)

\* u64 arithmetic without an overflow check in the source: the true value v
\* leaves the u64 (over), and then the build decides: with overflow checks
\* the call panics, without them the value wraps.
U64Op(v) == Strict(v, LAMBDA x : [over |-> BLess(U64_MAX, x), v |-> WrapU64(x)])

\* let total: u64 = gbps * 1_000_000_000 + bps as u64;
\* let total = (total + 4) / 8;
\* (lines 287-288 and 323-324)
RoundedBytes(bw) ==
  Strict(U64Op(BMulPow(bw.gbps, 1000, 3)), LAMBDA mul :
    Strict(U64Op(BAdd(mul.v, BFromInt[bw.bps])), LAMBDA add :
      Strict(U64Op(BAdd(add.v, <<4>>)), LAMBDA rnd :
        [over |-> mul.over \/ add.over \/ rnd.over,
         v    |-> BDivSmall(rnd.v, 8)])))

\* The components [bps, kibps, mibps, gibps, tibps] of a number of bytes per
\* second, by division and remainder (lines 290-300 and 326-336); each is
\* cast to u32, which loses nothing of a value below 2^61.
ComponentsOf[total \in Limbs] ==
  LET tibps  == BToInt[BDivPow(total, 1024, 4)]
      total3 == BModPow(total, 1024, 4)
      gibps  == BToInt[BDivPow(total3, 1024, 3)]
      total2 == BModPow(total3, 1024, 3)
      mibps  == BToInt[BDivPow(total2, 1024, 2)]
      total1 == BModPow(total2, 1024, 2)
      kibps  == BToInt[BDivSmall(total1, 1024)]
      bps    == BModSmall(total1, 1024)
  IN  <<bps, kibps, mibps, gibps, tibps>>

Components(total) == ComponentsOf[total]

\* The names of the decimal units in the place of the binary ones.
UnitNameDecimal(index) ==
  CASE index = 0 -> <<"B", "/", "s">>
    [] index = 1 -> <<"k", "B", "/", "s">>
    [] index = 2 -> <<"M", "B", "/", "s">>
    [] index = 3 -> <<"G", "B", "/", "s">>
    [] index = 4 -> <<"T", "B", "/", "s">>

\* impl Display for LargestBinaryUnit, by the discriminant
UnitName(index) ==
  CASE index = 0 -> <<"B", "/", "s">>
    [] index = 1 -> <<"K", "i", "B", "/", "s">>
    [] index = 2 -> <<"M", "i", "B", "/", "s">>
    [] index = 3 -> <<"G", "i", "B", "/", "s">>
    [] index = 4 -> <<"T", "i", "B", "/", "s">>

\* write!(f, "{value}") of an unsigned integer
NumberText(x) == DigitText[BDigits(x)]

\* write!(f, "{reminder:0zeros$}"): at least zeros digits, zero-padded
PaddedText(x, zeros) ==
  Strict(BDigits(x), LAMBDA ds :
    IF Len(ds) >= zeros THEN DigitText[ds]
    ELSE [i \in 1..(zeros - Len(ds)) |-> "0"] \o DigitText[ds])

\* crate::item: a nonzero component as <count><suffix>, after a space when
\* it is not the first one written.
item(w, name, value) ==
  IF value > 0
    THEN [out |-> w.out \o (IF w.started THEN <<" ">> ELSE <<>>)
                    \o NumberText(BFromInt[value]) \o name,
          started |-> TRUE]
  ELSE w

\* The state of a render call: the magnitude self.0, the display mode,
\* f.precision() (-1 for None), and the locals of fmt_decimal.  pc:
\* "start", "precision" (the loop of lines 373-411), "strip" (the loop of
\* lines 417-420), "write" (lines 424-428), "done".
FormatterNew(bw, mode, precision) ==
  [bw |-> bw, mode |-> mode, precision |-> precision, pc |-> "start",
   values |-> <<0, 0, 0, 0, 0>>, index |-> 0, value |-> 0,
   reminder |-> <<>>, zeros |-> 0, rounding_direction |-> 0, loops |-> 0,
   out |-> <<>>, result |-> "Running"]

FormatterIdle ==
  [FormatterNew(BandwidthZero, "integer", -1) EXCEPT !.pc = "idle"]

\* return Ok(()) with the text written
Written(f, text) == [f EXCEPT !.pc = "done", !.out = text, !.result = "Ok"]

\* An overflow panic: nothing is returned.
Panicked(f) == [f EXCEPT !.pc = "done", !.result = "Panic"]

\* The zero text without its suffix.
ZeroTextBare == <<"0">>

\* f.write_str("0B/s")
ZeroText == <<"0", "B", "/", "s">>

\* FormattedBinaryBandwidth::fmt_integer.  overflow_checks is the build's
\* setting for arithmetic overflow.
fmt_integer(f, overflow_checks) ==
  IF f.bw.gbps = <<>> /\ f.bw.bps = 0 THEN Written(f, ZeroText)
  ELSE Strict(RoundedBytes(f.bw), LAMBDA total :
    IF total.over /\ overflow_checks THEN Panicked(f)
    ELSE Strict(Components(total.v), LAMBDA v :
      Strict([out |-> <<>>, started |-> FALSE], LAMBDA w0 :
      Strict(item(w0, UnitName(4), v[5]), LAMBDA w1 :
      Strict(item(w1, UnitName(3), v[4]), LAMBDA w2 :
      Strict(item(w2, UnitName(2), v[3]), LAMBDA w3 :
      Strict(item(w3, UnitName(1), v[2]), LAMBDA w4 :
      Strict(item(w4, UnitName(0), v[1]), LAMBDA w5 :
        Written([f EXCEPT !.values = v], w5.out)))))))))

\* let largest_unit = ... (lines 338-348), as its discriminant
LargestBinaryUnit(v) ==
  IF v[5] > 0 THEN 4
  ELSE IF v[4] > 0 THEN 3
  ELSE IF v[3] > 0 THEN 2
  ELSE IF v[2] > 0 THEN 1
  ELSE 0

\* The loop of lines 355-361: the components below the anchor reassembled
\* as a base-1024 number (values[i - 1] of the source is v[i] here).
LowerPartFrom[v \in Seq(Nat), i \in Nat, reminder \in Limbs] ==
  IF i = 0 THEN reminder
  ELSE LowerPartFrom[v, i - 1,
                     BAdd(BMulSmall(reminder, 1024), BFromInt[v[i]])]

LowerPart(v, index) == LowerPartFrom[v, index, <<>>]

\* Lines 363-369: the remainder rescaled to 3*index decimal digits,
\* rounded at the shift boundary with ties to even.
Rescale(lower, index) ==
  Strict(BMulPow(lower, 1000, index), LAMBDA reminder :
    Strict(IF index = 0 THEN <<>> ELSE BMulPow(<<512>>, 1024, index - 1),
           LAMBDA rounding :
      Strict(BDivPow(BAdd(reminder, rounding), 1024, index),
             LAMBDA shifted :
        IF BModPow(reminder, 1024, index) = rounding
             /\ BModSmall(shifted, 2) = 1
          THEN BSub(shifted, BOne)
        ELSE shifted)))

\* fmt_decimal up to the choice of the branch of line 370 (lines 315-369,
\* with lines 421-423 when no precision is requested and the remainder is
\* zero).
FmtDecimalBegin(f, overflow_checks) ==
  IF f.bw.gbps = <<>> /\ f.bw.bps = 0 THEN Written(f, ZeroText)
  ELSE Strict(RoundedBytes(f.bw), LAMBDA total :
    IF total.over /\ overflow_checks THEN Panicked(f)
    ELSE Strict(Components(total.v), LAMBDA v :
      Strict(LargestBinaryUnit(v), LAMBDA index :
        Strict([f EXCEPT !.values = v, !.index = index,
                         !.value = v[index + 1],
                         !.reminder = Rescale(LowerPart(v, index), index),
                         !.zeros = index * 3, !.rounding_direction = 0],
               LAMBDA g :
          IF f.precision # -1 THEN [g EXCEPT !.pc = "precision"]
          ELSE IF g.reminder # <<>> THEN [g EXCEPT !.pc = "strip"]
          ELSE [g EXCEPT !.zeros = 0, !.pc = "write"]))))

\* The body of the precision loop without its `zeros -= 1`.
PrecisionLoopBodyStalled(f) ==
  [f EXCEPT !.reminder = BDivSmall(f.reminder, 10), !.loops = f.loops + 1]

\* The body of the precision loop (lines 374-410).
PrecisionLoopBody(f) ==
  LET loss     == BModSmall(f.reminder, 10)
      reminder == BDivSmall(f.reminder, 10)
      up   == [f EXCEPT !.reminder = BAdd(reminder, BOne),
                        !.rounding_direction = 1]
      down == [f EXCEPT !.reminder = reminder, !.rounding_direction = -1]
      g == IF loss = 0 THEN [f EXCEPT !.reminder = reminder]
           ELSE IF loss < 5 THEN down
           ELSE IF loss = 5 THEN
             IF f.rounding_direction = 0
               THEN IF BModSmall(reminder, 2) = 1 THEN up ELSE down
             ELSE IF f.rounding_direction = -1 THEN up
             ELSE down
           ELSE up
  IN  [g EXCEPT !.zeros = f.zeros - 1, !.loops = f.loops + 1]

\* One evaluation of the condition of the precision loop (line 373): the
\* body, or the exit through lines 412-415.
FmtDecimalPrecision(f) ==
  IF f.precision < f.zeros THEN PrecisionLoopBody(f)
  ELSE IF f.precision = 0 /\ f.reminder # <<>>
    THEN [f EXCEPT !.value = f.value + BToInt[f.reminder],
                   !.reminder = <<>>, !.pc = "write"]
  ELSE [f EXCEPT !.pc = "write"]

\* One evaluation of the condition of the stripping loop (line 417).
FmtDecimalStrip(f) ==
  IF BModSmall(f.reminder, 10) = 0
    THEN [f EXCEPT !.reminder = BDivSmall(f.reminder, 10),
                   !.zeros = f.zeros - 1, !.loops = f.loops + 1]
  ELSE [f EXCEPT !.pc = "write"]

\* Lines 424-428.
FmtDecimalWrite(f) ==
  Written(f, NumberText(BFromInt[f.value])
               \o (IF f.zeros # 0 \/ f.reminder # <<>>
                     THEN <<".">> \o PaddedText(f.reminder, f.zeros)
                   ELSE <<>>)
               \o UnitName(f.index))

\* One step of FormattedBinaryBandwidth::fmt_decimal.
FmtDecimalStep(f, overflow_checks) ==
  IF f.pc = "start" THEN FmtDecimalBegin(f, overflow_checks)
  ELSE IF f.pc = "precision" THEN FmtDecimalPrecision(f)
  ELSE IF f.pc = "strip" THEN FmtDecimalStrip(f)
  ELSE IF f.pc = "write" THEN FmtDecimalWrite(f)
  ELSE f

\* fmt_decimal run to its return (the loops take 12 iterations at most).
RECURSIVE FmtDecimalRun(_, _, _)
FmtDecimalRun(f, overflow_checks, k) ==
  IF f.pc \in {"done", "idle"} THEN f
  ELSE IF k = 0 THEN FmtDecimalStep(f, overflow_checks)
  ELSE Strict(FmtDecimalRun(f, overflow_checks, k - 1),
              LAMBDA g : FmtDecimalRun(g, overflow_checks, k - 1))

fmt_decimal(f, overflow_checks) == FmtDecimalRun(f, overflow_checks, RunDepth)

(***************************************************************************)
(* The calls.  inp describes the argument of a parse call as the spans it  *)
(* was written from; parser and fmtr are the states of the parse call and  *)
(* of the render call.                                                     *)
(***************************************************************************)

VARIABLES inp, parser, fmtr

vars == <<inp, parser, fmtr>>

\* Bounds of the inputs.
MaxSmall == 2

MaxFracLen == 14

MaxPrecision == 13

\* The recognised unit aliases, and one of each level.
Aliases ==
  Suffixes \cup Prefixed("k", "K") \cup Prefixed("m", "M")
    \cup Prefixed("g", "G") \cup Prefixed("t", "T")

LevelAlias ==
  <<<<"B", "p", "s">>, <<"K", "i", "B", "/", "s">>,
    <<"m", "i", "B", "y", "t", "e", "/", "s">>, <<"G", "i", "o", "p", "s">>,
    <<"t", "i", "o", "/", "s">>>>

\* A span as written: the integer n, then with dot a '.' and the digits
\* frac, then gap and the unit text; with grouped the integer is written
\* with '_' between its groups of three digits.
Span(n, dot, frac, gap, unit, grouped) ==
  [n |-> n, dot |-> dot, frac |-> frac, gap |-> gap, unit |-> unit,
   grouped |-> grouped]

\* The text of n with '_' between its groups of three digits.
GroupedText[x \in Limbs] ==
  IF Len(x) <= 1 THEN NumberText(x)
  ELSE GroupedText[Tail(x)] \o <<"_">>
         \o DigitText[<<Head(x) \div 100, (Head(x) \div 10) % 10,
                        Head(x) % 10>>]

IntegerText(n, grouped) == IF grouped THEN GroupedText[n] ELSE NumberText(n)

SpanText(sp) ==
  IntegerText(sp.n, sp.grouped)
    \o (IF sp.dot THEN <<".">> \o DigitText[sp.frac] ELSE <<>>)
    \o sp.gap \o sp.unit

\* The text of an input: its spans, with sep between two of them.
RECURSIVE InputText(_, _)
InputText(spans, sep) ==
  IF spans = <<>> THEN <<>>
  ELSE IF Len(spans) = 1 THEN SpanText(spans[1])
  ELSE SpanText(spans[1]) \o sep \o InputText(Tail(spans), sep)

TenTo(k) == BMulPow(BOne, 10, k)

SmallNumbers ==
  {BFromInt[i] : i \in 0..MaxSmall} \cup {BFromInt[1023], BFromInt[1024]}

LargeNumbers == {U64_MAX, TenTo(19), TenTo(18), TenTo(15)}

TooLargeNumbers == {U64_MODULUS, TenTo(20), TenTo(16)}

IntegerSpans ==
  {Span(n, FALSE, <<>>, <<>>, u, FALSE) :
     n \in SmallNumbers \cup LargeNumbers, u \in Aliases}

BoundarySpans ==
  {Span(n, FALSE, <<>>, <<>>, LevelAlias[l], g) :
     n \in LargeNumbers \cup TooLargeNumbers, l \in 1..5, g \in BOOLEAN}

\* Fractional digit strings: the prefixes of 123456789123..., of
\* 499999999999555..., and the exact halves of a byte per second at the
\* levels 0 and 1 (0.5 and 1/2048).
FracDigit(pattern, i) ==
  IF pattern = 1 THEN ((i - 1) % 9) + 1
  ELSE IF i = 1 THEN 4
  ELSE IF i <= 12 THEN 9
  ELSE 5

Fractions ==
  {[i \in 1..k |-> FracDigit(pat, i)] : pat \in 1..2, k \in 0..MaxFracLen}
    \cup {<<5>>, <<0, 0, 0, 4, 8, 8, 2, 8, 1, 2, 5>>, <<0, 2, 4>>}

DecimalSpans ==
  {Span(n, TRUE, f, g, LevelAlias[l], FALSE) :
     n \in {<<1>>, <<150>>}, f \in Fractions, g \in {<<>>, <<" ">>},
     l \in 1..5}

PairSpans ==
  {Span(<<3>>, FALSE, <<>>, <<>>, LevelAlias[1], FALSE),
   Span(<<9>>, FALSE, <<>>, <<>>, LevelAlias[5], FALSE),
   Span(<<420>>, FALSE, <<>>, <<>>, LevelAlias[4], FALSE),
   Span(<<1>>, TRUE, <<5>>, <<>>, LevelAlias[1], FALSE),
   Span(<<7>>, TRUE, <<7>>, <<>>, LevelAlias[3], FALSE),
   Span(<<10>>, TRUE, <<1, 0>>, <<" ">>, LevelAlias[4], FALSE),
   Span(<<12>>, TRUE, <<0, 0, 0, 4, 8, 8, 2, 8, 1, 2, 5>>, <<>>,
        LevelAlias[2], FALSE),
   Span(BMulSmall(TenTo(15), 2), FALSE, <<>>, <<>>, LevelAlias[5], FALSE)}

ParseInputs ==
  {[spans |-> <<sp>>, sep |-> <<>>] :
     sp \in IntegerSpans \cup BoundarySpans \cup DecimalSpans}
    \cup {[spans |-> <<s1, s2>>, sep |-> sep] :
            s1 \in PairSpans, s2 \in PairSpans, sep \in {<<>>, <<" ">>}}

NoInput == [spans |-> <<>>, sep |-> <<>>]

\* Inputs that end right after a number, or with whitespace after it: alone
\* ("123", "123 ", "1.5", "1_000") or after completed spans ("10 GiBps 1",
\* "3Bps12").
UnitlessTexts ==
  {<<"1", "2", "3">>,
   <<"1", "2", "3", " ">>,
   <<"1", "2", "3", " ", " ">>,
   <<"0">>,
   <<"1", ".", "5">>,
   <<"1", "_", "0", "0", "0">>,
   <<"1", "0", " ", "G", "i", "B", "p", "s", " ", "1">>,
   <<"3", "B", "p", "s", "1", "2">>,
   <<"3", "B", "p", "s", " ", "1", "2", " ">>,
   <<"1", ".", "5", "K", "i", "B", "/", "s", " ", "2", ".", "5">>}

\* Unit texts outside of the match of parse_binary_unit: other spellings of
\* the suffix, other cases, a bare prefix, a decimal prefix.
NonAliasUnits ==
  {<<"b", "y", "t", "e", "/", "s">>,
   <<"b", "p", "s">>,
   <<"K", "i">>,
   <<"K", "I", "B", "p", "s">>,
   <<"k", "i", "b", "p", "s">>,
   <<"i", "B", "p", "s">>,
   <<"B", "/", "s", "/">>,
   <<"k", "B", "/", "s">>,
   <<"K", "i", "B", "p">>,
   <<"B", "p">>,
   <<"b", "/", "s">>,
   <<"O", "P", "S">>,
   <<"T", "i", "b", "p", "s">>,
   <<"K", "i", "B", "p", "s", "B", "p", "s">>,
   <<"x", "y", "z">>,
   <<"B">>,
   <<"K", "i", "M", "i", "B", "p", "s">>,
   <<"P", "i", "B", "p", "s">>}

\* Inputs with a unit text outside of the match: directly after the number,
\* after whitespace, before whitespace, after a completed span, closed by
\* the digit of a next span, after a fraction, and after a fraction of more
\* than FRACTION_PART_LIMIT digits.
UnknownUnitTexts ==
  {<<"7">> \o u : u \in NonAliasUnits}
    \cup {<<"3", "B", "p", "s", "7">> \o u : u \in NonAliasUnits}
    \cup {<<"1", "0", " ", "b", "y", "t", "e", "/", "s">>,
          <<"1", "0", "b", "y", "t", "e", "/", "s", " ">>,
          <<"1", "0", " ", " ", "b", "y", "t", "e", "/", "s", " ", " ">>,
          <<"3", "B", "p", "s", " ", "1", "0", " ", "b", "y", "t", "e", "/", "s">>,
          <<"3", "B", "p", "s", "1", "0", " ", "b", "p", "s", " ", "4", "B", "p", "s">>,
          <<"1", "0", "b", "y", "t", "e", "/", "s", "5", "B", "p", "s">>,
          <<"1", ".", "5", "x", "y", "z">>,
          <<"1", "_", "0", "0", "0", " ", "K", "B", "/", "s">>,
          <<"1", ".", "1", "2", "3", "4", "5", "6", "7", "8", "9", "1", "2", "3", "b", "y", "t", "e", "/", "s">>,
          <<"1", ".", "1", "2", "3", "4", "5", "6", "7", "8", "9", "1", "2", "3", "4", "b", "y", "t", "e", "/", "s">>,
          <<"1", ".", "1", "2", "3", "4", "5", "6", "7", "8", "9", "1", "2", "3", "4", " ", "b", "y", "t", "e", "/", "s">>}

\* Inputs with a second decimal point in a number, with a character that
\* no loop accepts, or with a point or an underscore in a unit: in a first
\* span, in a later one, and after a fraction of more than
\* FRACTION_PART_LIMIT digits.
InvalidCharTexts ==
  {<<"1", ".", ".", "5", "B", "p", "s">>,
   <<"1", ".", "5", ".", "2", "B", "p", "s">>,
   <<"1", ".", " ", "5", " ", ".", "2", "B", "p", "s">>,
   <<"1", "-", "5", "B", "p", "s">>,
   <<"1", "2", ",", "5", "B", "p", "s">>,
   <<"1", ".", "5", "-", "B", "p", "s">>,
   <<"1", "2", " ", "*", "B", "p", "s">>,
   <<"1", "2", "B", "-", "p", "s">>,
   <<"1", "2", "B", "p", "s", "-">>,
   <<"1", "2", "B", "p", "s", ",", "3", "B", "p", "s">>,
   <<"1", "2", "B", ".", "s">>,
   <<"1", "2", "B", "_", "s">>,
   <<"1", "2", " ", "B", ":", "s">>,
   <<"1", ".", "5", "B", "p", "s", " ", "2", ".", "5", ".", "1", "B", "p", "s">>,
   <<"1", ".", "5", "B", "p", "s", "2", ".", "5", ".", "1", "B", "p", "s">>,
   <<"3", "K", "i", "B", "/", "s", " ", "4", "+", "B", "p", "s">>,
   <<"1", ".", "1", "2", "3", "4", "5", "6", "7", "8", "9", "1", "2", "3", ".", "5", "B", "p", "s">>,
   <<"1", ".", "1", "2", "3", "4", "5", "6", "7", "8", "9", "1", "2", "3", "4", ".", "5", "B", "p", "s">>,
   <<"1", ".", "1", "2", "3", "4", "5", "6", "7", "8", "9", "1", "2", "3", "4", "-", "B", "p", "s">>,
   <<"1", ".", "1", "2", "3", "4", "5", "6", "7", "8", "9", "1", "2", "3", "4", "5", "+">>}

RawTexts == UnitlessTexts \cup UnknownUnitTexts \cup InvalidCharTexts

\* tests::new_bandwidth(tebi, gibi, mibi, kibi, bytes)
new_bandwidth(tebi, gibi, mibi, kibi, bytes) ==
  BandwidthFromBits(
    BMulSmall(LowerPart(<<bytes, kibi, mibi, gibi, tebi>>, 5), 8))

\* Magnitudes to render: by components, by bits, and at the edge of u64.
Magnitudes ==
  {new_bandwidth(c[1], c[2], c[3], c[4], c[5]) :
     c \in {<<0, 0, 0, 0, 0>>, <<0, 0, 0, 0, 1>>, <<0, 0, 0, 0, 15>>,
            <<0, 0, 0, 51, 256>>, <<0, 0, 32, 256, 0>>, <<0, 0, 79, 0, 5>>,
            <<0, 0, 100, 128, 7>>, <<0, 0, 150, 0, 0>>,
            <<0, 0, 410, 9, 116>>, <<0, 1, 0, 0, 0>>, <<0, 4, 512, 0, 0>>,
            <<0, 4, 500, 0, 0>>, <<8, 768, 0, 0, 0>>, <<9, 384, 0, 0, 0>>,
            <<9, 420, 0, 0, 0>>, <<0, 0, 0, 1, 1023>>,
            <<0, 0, 0, 1023, 1023>>, <<0, 0, 1, 1023, 1023>>,
            <<0, 0, 0, 1, 64>>, <<0, 0, 0, 1, 192>>,
            <<0, 0, 3, 0, 525>>, <<0, 0, 0, 1, 512>>, <<0, 0, 0, 2, 512>>,
            <<0, 0, 0, 3, 999>>, <<0, 7, 1000, 460, 77>>,
            <<0, 0, 0, 1, 15>>, <<0, 0, 0, 1, 358>>,
            <<1023, 1023, 1023, 1023, 1023>>}}
    \cup {Bandwidth(<<>>, b) : b \in {1, 3, 4, 11, 12, 8200}}
    \cup {BandwidthFromBits(BSub(U64_MAX, BFromInt[d])) : d \in {0, 3, 4, 7, 8}}
    \cup {Bandwidth(<<74, 744, 446, 18>>, 0), Bandwidth(U64_MAX, 999999999),
          BandwidthFromBits(BMulSmall(BMulPow(TenTo(19), 1024, 2), 8))}

Precisions == -1..MaxPrecision

Init ==
  \/ /\ inp \in ParseInputs
     /\ parser = ParserNew(InputText(inp.spans, inp.sep))
     /\ fmtr = FormatterIdle
  \/ /\ inp = NoInput
     /\ parser \in {ParserNew(s) : s \in RawTexts}
     /\ fmtr = FormatterIdle
  \/ /\ inp = NoInput
     /\ parser = ParserIdle
     /\ \E bw \in Magnitudes, p \in Precisions :
          fmtr \in {FormatterNew(bw, "decimal", p),
                    FormatterNew(bw, "integer", p)}

\* Parser::parse_first_char draws one character.
ParseFirstChar ==
  /\ parser.pc = "first"
  /\ parser' = parse_first_char(parser)
  /\ UNCHANGED <<inp, fmtr>>

\* The number loop of Parser::parse_binary draws one character.
NumberLoop ==
  /\ parser.pc = "number"
  /\ parser' = NumberLoopBody(parser)
  /\ UNCHANGED <<inp, fmtr>>

\* The unit loop of Parser::parse_binary draws one character.
UnitLoop ==
  /\ parser.pc = "unit"
  /\ parser' = UnitLoopBody(parser)
  /\ UNCHANGED <<inp, fmtr>>

\* FormattedBinaryBandwidth::fmt_integer, in a build with or without
\* overflow checks.
FmtInteger ==
  /\ fmtr.pc = "start"
  /\ fmtr.mode = "integer"
  /\ \E overflow_checks \in BOOLEAN :
       fmtr' = fmt_integer(fmtr, overflow_checks)
  /\ UNCHANGED <<inp, parser>>

\* FormattedBinaryBandwidth::fmt_decimal, to the branch of line 370.
FmtDecimalStart ==
  /\ fmtr.pc = "start"
  /\ fmtr.mode = "decimal"
  /\ \E overflow_checks \in BOOLEAN :
       fmtr' = FmtDecimalBegin(fmtr, overflow_checks)
  /\ UNCHANGED <<inp, parser>>

FmtDecimalPrecisionLoop ==
  /\ fmtr.pc = "precision"
  /\ fmtr' = FmtDecimalPrecision(fmtr)
  /\ UNCHANGED <<inp, parser>>

FmtDecimalStripLoop ==
  /\ fmtr.pc = "strip"
  /\ fmtr' = FmtDecimalStrip(fmtr)
  /\ UNCHANGED <<inp, parser>>

FmtDecimalWriteOut ==
  /\ fmtr.pc = "write"
  /\ fmtr' = FmtDecimalWrite(fmtr)
  /\ UNCHANGED <<inp, parser>>

\* parse_binary_bandwidth called on the text a fmt_integer call has
\* written.
Reparse ==
  /\ fmtr.pc = "done"
  /\ fmtr.mode = "integer"
  /\ fmtr.result = "Ok"
  /\ parser.pc = "idle"
  /\ parser' = ParserNew(fmtr.out)
  /\ UNCHANGED <<inp, fmtr>>

Next ==
  \/ ParseFirstChar
  \/ NumberLoop
  \/ UnitLoop
  \/ FmtInteger
  \/ FmtDecimalStart
  \/ FmtDecimalPrecisionLoop
  \/ FmtDecimalStripLoop
  \/ FmtDecimalWriteOut
  \/ Reparse

Spec == Init /\ [][Next]_vars

\* The calls are sequential code: a call that has a step to take takes it.
FairSpec == Spec /\ WF_vars(Next)

(***************************************************************************)
(* The values the properties refer to, computed from the written input or  *)
(* from the magnitude, apart from the code.                                *)
(***************************************************************************)

\* The level of a unit alias, by its binary prefix.
AliasLevel(u) ==
  IF Head(u) \in {"k", "K"} THEN 1
  ELSE IF Head(u) \in {"m", "M"} THEN 2
  ELSE IF Head(u) \in {"g", "G"} THEN 3
  ELSE IF Head(u) \in {"t", "T"} THEN 4
  ELSE 0

\* The value of a sequence of decimal digits.
DigitsValue[ds \in Seq(0..9)] ==
  IF ds = <<>> THEN <<>>
  ELSE BAdd(BMulSmall(DigitsValue[SubSeq(ds, 1, Len(ds) - 1)], 10),
            BFromInt[ds[Len(ds)]])

\* x / m^k rounded to the nearest integer, ties to even.
RoundHalfEven(x, m, k) ==
  LET q     == BDivPow(x, m, k)
      twice == BMulSmall(BModPow(x, m, k), 2)
      unit  == BMulPow(BOne, m, k)
  IN  IF BLess(unit, twice) \/ (twice = unit /\ BModSmall(q, 2) = 1)
        THEN BAdd(q, BOne)
      ELSE q

\* The bits per second a span stands for: 8 * (n * 1024^L + the fraction
\* in bytes per second, rounded to the nearest with ties away from zero),
\* of the fractional digits kept.
SpanValue(sp) ==
  LET L    == AliasLevel(sp.unit)
      k    == IF Len(sp.frac) < FRACTION_PART_LIMIT THEN Len(sp.frac)
              ELSE FRACTION_PART_LIMIT
      F    == DigitsValue[SubSeq(sp.frac, 1, k)]
      half == BDivSmall(TenTo(k), 2)
  IN  BMulSmall(BAdd(BMulPow(sp.n, 1024, L),
                     BDivPow(BAdd(BMulPow(F, 1024, L), half), 10, k)), 8)

\* A number of bits per second whose gigabit count fits the u64.
InRange(bits) == BLeq(BDivPow(bits, 1000, 3), U64_MAX)

\* The result carries exactly bits: the gigabit count is floor(bits / 10^9)
\* and the remainder is bits mod 10^9.
CarriesBits(res, bits) ==
  /\ res.kind = "Ok"
  /\ res.bw.gbps = BDivPow(bits, 1000, 3)
  /\ BFromInt[res.bw.bps] = BModPow(bits, 1000, 3)

\* The parse call has returned on an input of one span.
ParsedOne == parser.pc = "done" /\ Len(inp.spans) = 1

\* The render call has returned.
Rendered == fmtr.pc = "done"

\* The rounded bytes per second of a magnitude: (gbps * 10^9 + bps + 4) / 8.
TrueTotal(bw) == BDivSmall(BAdd(BandwidthBits(bw), <<4>>), 8)

\* The bit count of the magnitude, with the 4 of the rounding, fits the u64.
Fits(bw) == BLeq(BAdd(BandwidthBits(bw), <<4>>), U64_MAX)

\* The components of the rounded bytes per second of a magnitude.
TrueComponents(bw) == Components(TrueTotal(bw))

\* The anchor: the largest unit with a nonzero component.
Anchor(v) ==
  IF \A j \in 1..5 : v[j] = 0 THEN 0
  ELSE (CHOOSE j \in 1..5 : v[j] > 0 /\ \A h \in (j + 1)..5 : v[h] = 0) - 1

\* The natural fraction of the anchor's unit, on 3 * i digits.
NaturalFraction(v) ==
  RoundHalfEven(BMulPow(LowerPart(v, Anchor(v)), 1000, Anchor(v)), 1024,
                Anchor(v))

\* The number of leading digits of a text, and the fields of an output:
\* the integer field, and the digits after the decimal point.
LeadingDigits(s) ==
  CHOOSE k \in 0..Len(s) :
    /\ \A j \in 1..k : IsDigit(s[j])
    /\ k = Len(s) \/ ~IsDigit(s[k + 1])

IntegerField(out) == SubSeq(out, 1, LeadingDigits(out))

AfterInteger(out) == SubSeq(out, LeadingDigits(out) + 1, Len(out))

HasPoint(out) == AfterInteger(out) # <<>> /\ Head(AfterInteger(out)) = "."

FractionField(out) ==
  IF HasPoint(out) THEN IntegerField(Tail(AfterInteger(out))) ELSE <<>>

\* The number a text of digits writes.
TextValue(s) == DigitsValue[[j \in 1..Len(s) |-> DigitValue(s[j])]]

\* A text of digits without its trailing zeros.
StripZeros[s \in Seq({"0", "1", "2", "3", "4", "5", "6", "7", "8", "9"})] ==
  IF s # <<>> /\ s[Len(s)] = "0" THEN StripZeros[SubSeq(s, 1, Len(s) - 1)]
  ELSE s

\* The natural decimal text of the components v.
NaturalText(v) ==
  NumberText(BFromInt[v[Anchor(v) + 1]])
    \o (IF LowerPart(v, Anchor(v)) # <<>>
          THEN <<".">>
                 \o StripZeros[PaddedText(NaturalFraction(v), 3 * Anchor(v))]
        ELSE <<>>)
    \o UnitName(Anchor(v))

\* The itemized text of the components v: the nonzero ones from index i
\* down, a space between two of them.
ItemizedFrom[v \in Seq(Nat), i \in 0..5, text \in Seq(STRING)] ==
  IF i = 0 THEN text
  ELSE ItemizedFrom[v, i - 1,
         IF v[i] = 0 THEN text
         ELSE (IF text = <<>> THEN <<>> ELSE text \o <<" ">>)
                \o NumberText(BFromInt[v[i]]) \o UnitName(i - 1)]

ItemizedText(v) == ItemizedFrom[v, 5, <<>>]

(***************************************************************************)
(* The properties.                                                         *)
(***************************************************************************)

C2_SpansAdd ==
  (parser.pc = "done" /\ Len(inp.spans) = 2)
    => LET r1  == parse_binary_bandwidth(SpanText(inp.spans[1]))
           r2  == parse_binary_bandwidth(SpanText(inp.spans[2]))
           sum == BandwidthCheckedAdd(r1.bw, r2.bw)
       IN  (r1.kind = "Ok" /\ r2.kind = "Ok" /\ sum.ok)
             => parser.result = Ok(sum.bw)

\* C2 witness: a decimal span directly followed by an integer span, parsed.
C2_Witness ==
  /\ parser.pc = "done"
  /\ Len(inp.spans) = 2
  /\ inp.sep = <<>>
  /\ inp.spans[1].dot
  /\ inp.spans[1].frac # <<>>
  /\ ~inp.spans[2].dot
  /\ parser.result.kind = "Ok"

\* C3: a call on "{n}.{f}{u}" returns 8 * (n * 1024^L + the fraction in
\* bytes per second rounded to the nearest, ties away from zero) bits per
\* second, the fraction being the first FRACTION_PART_LIMIT digits of f at
\* most, so that digits past the cap change nothing.
C3_FractionRounded ==
  (/\ ParsedOne
   /\ inp.spans[1].dot
   /\ inp.spans[1].gap = <<>>
   /\ InRange(SpanValue(inp.spans[1])))
    => CarriesBits(parser.result, SpanValue(inp.spans[1]))

\* C4: a render call on any magnitude returns normally, having decomposed
\* the true value (gbps * 10^9 + bps + 4) / 8.
C4_RenderTotal ==
  Rendered
    => /\ fmtr.result = "Ok"
       /\ fmtr.values = TrueComponents(fmtr.bw)

\* C5: in decimal mode with precision p and anchor i the output has
\* exactly min(p, 3 * i) fractional digits, with a decimal point only when
\* that is not 0, and when p < 3 * i the printed number is the natural
\* value rounded to p digits, ties to even.
C5_PrecisionDigits ==
  (/\ Rendered
   /\ fmtr.mode = "decimal"
   /\ fmtr.precision # -1
   /\ fmtr.result = "Ok"
   /\ Fits(fmtr.bw))
    => LET v == TrueComponents(fmtr.bw)
           i == Anchor(v)
           p == fmtr.precision
           d == IF p < 3 * i THEN p ELSE 3 * i
           natural == BAdd(BMulPow(BFromInt[v[i + 1]], 1000, i),
                           NaturalFraction(v))
       IN  /\ Len(FractionField(fmtr.out)) = d
           /\ HasPoint(fmtr.out) <=> d > 0
           /\ p < 3 * i
                => TextValue(IntegerField(fmtr.out)
                               \o FractionField(fmtr.out))
                     = RoundHalfEven(natural, 10, 3 * i - p)

\* C6: in decimal mode with precision p the fractional field has p digits
\* at most, and when the rounding of the natural fraction to p digits
\* carries out of it, the integer part printed is the anchor's component
\* plus one and the field is p zeros (none, and no point, at p = 0).
C6_CarryIntoInteger ==
  (/\ Rendered
   /\ fmtr.mode = "decimal"
   /\ fmtr.precision # -1
   /\ fmtr.result = "Ok"
   /\ Fits(fmtr.bw))
    => LET v == TrueComponents(fmtr.bw)
           i == Anchor(v)
           p == fmtr.precision
       IN  /\ Len(FractionField(fmtr.out)) <= p
           /\ p = 0 => ~HasPoint(fmtr.out)
           /\ (/\ p < 3 * i
               /\ RoundHalfEven(NaturalFraction(v), 10, 3 * i - p)
                    = TenTo(p))
                => fmtr.out
                     = NumberText(BFromInt[v[i + 1] + 1])
                         \o (IF p > 0 THEN <<".">> \o [j \in 1..p |-> "0"]
                             ELSE <<>>)
                         \o UnitName(i)

\* C7: in decimal mode with no precision the output is the anchor's
\* component, then, when the smaller components are not all zero, '.' and
\* the natural fraction on 3 * i digits without its trailing zeros, then
\* the anchor's suffix.
C7_NaturalDecimal ==
  (/\ Rendered
   /\ fmtr.mode = "decimal"
   /\ fmtr.precision = -1
   /\ fmtr.bw # BandwidthZero)
    => /\ fmtr.result = "Ok"
       /\ fmtr.out = NaturalText(TrueComponents(fmtr.bw))

\* C8: in itemized mode the output lists exactly the nonzero components of
\* the rounded bytes per second, from TiB/s down to B/s, one space between
\* two of them, and the components sum back to the rounded value.
C8_ItemizedComponents ==
  (/\ Rendered
   /\ fmtr.mode = "integer"
   /\ fmtr.bw # BandwidthZero)
    => /\ fmtr.result = "Ok"
       /\ fmtr.out = ItemizedText(TrueComponents(fmtr.bw))
       /\ LowerPart(fmtr.values, 5) = TrueTotal(fmtr.bw)

\* C9: the zero magnitude renders as "0B/s" in itemized mode and in
\* decimal mode, with any precision or none.
C9_ZeroText ==
  (Rendered /\ fmtr.bw = BandwidthZero)
    => /\ fmtr.result = "Ok"
       /\ fmtr.out = <<"0", "B", "/", "s">>

\* C9 witness: the zero magnitude rendered in decimal mode, precision 5.
C9_Witness ==
  /\ Rendered
  /\ fmtr.bw = BandwidthZero
  /\ fmtr.mode = "decimal"
  /\ fmtr.precision = 5
  /\ fmtr.out # <<>>

\* C10: a call on one integer span returns Err(NumberOverflow) when the
\* literal exceeds 2^64 - 1 or floor(n * 1024^L * 8 / 10^9) does, and Ok
\* otherwise.
C10_OverflowBoundary ==
  (ParsedOne /\ ~inp.spans[1].dot)
    => IF \/ BLess(U64_MAX, inp.spans[1].n)
          \/ ~InRange(SpanValue(inp.spans[1]))
         THEN parser.result = NumberOverflow
       ELSE parser.result.kind = "Ok"

\* C10 witness: 10^16 TiBps rejected, the literal itself fitting the u64.
C10_Witness ==
  /\ ParsedOne
  /\ ~inp.spans[1].dot
  /\ inp.spans[1].n = TenTo(16)
  /\ AliasLevel(inp.spans[1].unit) = 4
  /\ parser.result = NumberOverflow

\* C11: a call on two spans that each parse alone returns their sum when
\* the sum is a magnitude and Err(NumberOverflow) when it is not: it never
\* ends abruptly and never returns another magnitude.
C11_SumOverflowIsError ==
  (parser.pc = "done" /\ Len(inp.spans) = 2)
    => LET r1  == parse_binary_bandwidth(SpanText(inp.spans[1]))
           r2  == parse_binary_bandwidth(SpanText(inp.spans[2]))
           sum == BandwidthCheckedAdd(r1.bw, r2.bw)
       IN  (r1.kind = "Ok" /\ r2.kind = "Ok")
             => /\ parser.result.kind # "Panic"
                /\ parser.result = IF sum.ok THEN Ok(sum.bw)
                                   ELSE NumberOverflow

\* The integer part a number text writes: its digits before the decimal
\* point, the '_' and the whitespace apart.
IntegerPart(t) ==
  LET point == CHOOSE k \in 1..(Len(t) + 1) :
                 /\ k = Len(t) + 1 \/ t[k] = "."
                 /\ \A j \in 1..(k - 1) : t[j] # "."
  IN  TextValue(SelectSeq(SubSeq(t, 1, point - 1), IsDigit))

\* The text after the last letter or '/' of t: the last number written.
LastNumber(t) ==
  LET last == CHOOSE k \in 0..Len(t) :
                /\ k = 0 \/ IsUnitChar(t[k])
                /\ \A j \in (k + 1)..Len(t) : ~IsUnitChar(t[j])
  IN  SubSeq(t, last + 1, Len(t))

\* The parse call has returned on a text of the set texts.
ParsedText(texts) ==
  parser.pc = "done" /\ inp = NoInput /\ fmtr.pc = "idle"
    /\ parser.src \in texts

TableSuffixes ==
  {<<"B", "p", "s">>, <<"B", "y", "t", "e", "/", "s">>, <<"B", "/", "s">>,
   <<"o", "p", "s">>, <<"o", "/", "s">>}

TableLevel(u) ==
  IF u \in TableSuffixes THEN 0
  ELSE IF Len(u) > 2 /\ u[2] = "i" /\ SubSeq(u, 3, Len(u)) \in TableSuffixes
    THEN IF u[1] \in {"k", "K"} THEN 1
         ELSE IF u[1] \in {"m", "M"} THEN 2
         ELSE IF u[1] \in {"g", "G"} THEN 3
         ELSE IF u[1] \in {"t", "T"} THEN 4
         ELSE -1
  ELSE -1

\* The maximal runs of letters and '/' of a text: where one starts, and
\* where the one that starts at i ends.
RunStarts(t) ==
  {i \in 1..Len(t) : IsUnitChar(t[i]) /\ (i = 1 \/ ~IsUnitChar(t[i - 1]))}

RunEnd(t, i) ==
  CHOOSE j \in i..Len(t) :
    /\ \A h \in i..j : IsUnitChar(t[h])
    /\ j = Len(t) \/ ~IsUnitChar(t[j + 1])

\* The start of the first run of t that the table does not hold.
FirstUnknownRun(t) ==
  CHOOSE i \in RunStarts(t) :
    /\ TableLevel(SubSeq(t, i, RunEnd(t, i))) = -1
    /\ \A h \in RunStarts(t) :
         h < i => TableLevel(SubSeq(t, h, RunEnd(t, h))) # -1

\* C13: a call on an input with a unit text outside of the table returns
\* Err(UnknownBinaryUnit) with unit the maximal run of letters and '/',
\* start and end its offsets (end exclusive) and value the integer part of
\* the span, whatever the whitespace before or after the unit.
C13_UnknownUnitFields ==
  ParsedText(UnknownUnitTexts)
    => LET t == parser.src
           i == FirstUnknownRun(t)
           j == RunEnd(t, i)
       IN  parser.result
             = UnknownBinaryUnit(i - 1, j, SubSeq(t, i, j),
                                 IntegerPart(LastNumber(SubSeq(t, 1, i - 1))))

\* The spellings of the table.
TableAliases ==
  TableSuffixes
    \cup {<<p, "i">> \o s :
            p \in {"k", "K", "m", "M", "g", "G", "t", "T"},
            s \in TableSuffixes}

\* C14: the unit texts that parse are the spellings of the table, each with
\* the level of the table: "{n}{u}" returns n * 1024^level * 8 bits per
\* second for every spelling u, and for any other unit text the call
\* returns Err(UnknownBinaryUnit) with that text, the running total left
\* as the spans before it made it.
C14_ClosedUnitTable ==
  /\ Aliases = TableAliases
  /\ (/\ ParsedOne
      /\ ~inp.spans[1].dot
      /\ ~inp.spans[1].grouped
      /\ inp.spans[1].n \in SmallNumbers)
       => /\ TableLevel(inp.spans[1].unit) \in 0..4
          /\ CarriesBits(parser.result,
                         BMulSmall(BMulPow(inp.spans[1].n, 1024,
                                           TableLevel(inp.spans[1].unit)),
                                   8))
  /\ \A u \in NonAliasUnits :
       /\ TableLevel(u) = -1
       /\ (parser.pc = "done" /\ inp = NoInput /\ fmtr.pc = "idle"
             /\ parser.src = <<"7">> \o u)
            => /\ parser.result = UnknownBinaryUnit(1, 1 + Len(u), u, <<7>>)
               /\ parser.current = BandwidthZero
       /\ (parser.pc = "done" /\ inp = NoInput /\ fmtr.pc = "idle"
             /\ parser.src = <<"3", "B", "p", "s", "7">> \o u)
            => /\ parser.result = UnknownBinaryUnit(5, 5 + Len(u), u, <<7>>)
               /\ parser.current = Bandwidth(<<>>, 24)

\* C14 witness: "3Bps7KIBps" rejected for the unit "KIBps" of its second
\* span, the total of the first span in the parser.
C14_Witness ==
  /\ parser.pc = "done"
  /\ parser.src = <<"3", "B", "p", "s", "7", "K", "I", "B", "p", "s">>
  /\ parser.result.err = "UnknownBinaryUnit"
  /\ parser.result.unit = <<"K", "I", "B", "p", "s">>
  /\ parser.current = Bandwidth(<<>>, 24)

\* The first character of t, from i on, that the scanner does not accept
\* (0 when it accepts them all): in a number a second decimal point, or a
\* character other than a digit, '_', whitespace, '.', a letter or '/';
\* in a unit a character other than a letter, '/', whitespace or a digit.
\* A digit after a unit starts a number that may have its decimal point.
Offender[t \in Seq(STRING), i \in Nat, mode \in {"first", "number", "unit"},
         dot \in BOOLEAN] ==
  IF i > Len(t) THEN 0
  ELSE IF mode = "number" THEN
    IF IsDigit(t[i]) \/ t[i] = "_" \/ IsWhitespace(t[i])
      THEN Offender[t, i + 1, "number", dot]
    ELSE IF t[i] = "."
      THEN IF dot THEN i ELSE Offender[t, i + 1, "number", TRUE]
    ELSE IF IsUnitChar(t[i]) THEN Offender[t, i + 1, "unit", dot]
    ELSE i
  ELSE IF mode = "unit" THEN
    IF IsUnitChar(t[i]) THEN Offender[t, i + 1, "unit", dot]
    ELSE IF IsWhitespace(t[i]) THEN Offender[t, i + 1, "first", dot]
    ELSE IF IsDigit(t[i]) THEN Offender[t, i + 1, "number", FALSE]
    ELSE i
  ELSE IF IsWhitespace(t[i]) THEN Offender[t, i + 1, "first", dot]
  ELSE IF IsDigit(t[i]) THEN Offender[t, i + 1, "number", FALSE]
  ELSE 0

\* C15: a call on an input with a second decimal point in a number, or with
\* a character the number loop or the unit loop does not accept, returns
\* Err(InvalidCharacter) with the offset of that character; the decimal
\* point of a later span is not a second one.
C15_InvalidCharacterOffset ==
  ParsedText(InvalidCharTexts)
    => /\ Offender[parser.src, 1, "first", FALSE] > 0
       /\ parser.result
            = InvalidCharacter(Offender[parser.src, 1, "first", FALSE] - 1)

\* A parse call, or a render call, that has not returned.
Parsing == parser.pc \in {"first", "number", "unit"}

Rendering == fmtr.pc \in {"start", "precision", "strip", "write"}

\* C16: every parse call and every render call returns.  The scanner never
\* draws more characters than the input has, and asks for a character at
\* most twice more (the end of the input, seen by two of the number loop,
\* the unit loop and parse_first_char); the precision loop and the
\* stripping loop of the renderer take 12 iterations at most.
C16_Terminates ==
  /\ [](/\ parser.pos <= Len(parser.src)
        /\ parser.steps <= parser.pos + 2
        /\ fmtr.loops <= 12)
  /\ Parsing ~> (parser.pc = "done")
  /\ Rendering ~> (fmtr.pc = "done")

\* C16 witness: a render call returned after 12 iterations of the precision
\* loop (anchor TiB/s, precision 0).
C16_Witness ==
  /\ fmtr.pc = "done"
  /\ fmtr.mode = "decimal"
  /\ fmtr.precision = 0
  /\ fmtr.index = 4
  /\ fmtr.loops = 12

\* The parse call on the text of an itemized render call has returned.
Reparsed ==
  /\ fmtr.pc = "done"
  /\ fmtr.mode = "integer"
  /\ parser.pc = "done"
  /\ inp = NoInput

\* C17: for a magnitude of a whole number of bytes per second (zero
\* included) whose bit count fits 64 bits, the parse call on the text the
\* itemized render call wrote returns that magnitude.
C17_ItemizedRoundTrip ==
  (/\ Reparsed
   /\ BModSmall(BandwidthBits(fmtr.bw), 8) = 0
   /\ BLeq(BandwidthBits(fmtr.bw), U64_MAX))
    => /\ parser.src = fmtr.out
       /\ parser.result = Ok(fmtr.bw)

\* C17 witness: "9TiB/s 420GiB/s" written and parsed back.
C17_Witness ==
  /\ Reparsed
  /\ fmtr.bw = new_bandwidth(9, 420, 0, 0, 0)
  /\ fmtr.out = <<"9", "T", "i", "B", "/", "s", " ",
                  "4", "2", "0", "G", "i", "B", "/", "s">>
  /\ parser.result = Ok(fmtr.bw)

\* The number a decimal output prints, in units of its last printed digit.
PrintedNumber(out) == TextValue(IntegerField(out) \o FractionField(out))

\* C18: in decimal mode with a precision the printed number is the exact
\* value, rounded bytes / 1024^i for the anchor i, rounded half to even to
\* the number of fractional digits printed: it is within half a unit of the
\* last printed digit of the exact value.
C18_RoundsExactValue ==
  (/\ Rendered
   /\ fmtr.mode = "decimal"
   /\ fmtr.precision # -1
   /\ fmtr.result = "Ok"
   /\ Fits(fmtr.bw))
    => LET i == Anchor(TrueComponents(fmtr.bw))
           d == Len(FractionField(fmtr.out))
       IN  PrintedNumber(fmtr.out)
             = RoundHalfEven(BMulPow(TrueTotal(fmtr.bw), 10, d), 1024, i)

\* C19: a render call never writes an empty text, and for a magnitude
\* whose rounded bytes per second are 0 (zero, and 1 to 3 bits per second)
\* both modes write "0B/s".
C19_NeverEmpty ==
  (Rendered /\ Fits(fmtr.bw))
    => /\ fmtr.result = "Ok"
       /\ fmtr.out # <<>>
       /\ TrueTotal(fmtr.bw) = <<>> => fmtr.out = <<"0", "B", "/", "s">>

\* C20: in decimal mode, for a nonzero magnitude whose anchor is below
\* TiB/s, the integer part printed is between 1 and 1023, with any
\* precision or none; with no precision the natural fraction is below
\* 1000^i and the integer part printed is the anchor's component.
C20_IntegerPartInRange ==
  (/\ Rendered
   /\ fmtr.mode = "decimal"
   /\ fmtr.result = "Ok"
   /\ Fits(fmtr.bw)
   /\ fmtr.bw # BandwidthZero
   /\ Anchor(TrueComponents(fmtr.bw)) < 4)
    => LET v == TrueComponents(fmtr.bw)
           i == Anchor(v)
           n == TextValue(IntegerField(fmtr.out))
       IN  /\ BLeq(BOne, n)
           /\ BLeq(n, BFromInt[1023])
           /\ fmtr.precision = -1
                => /\ BLess(NaturalFraction(v), TenTo(3 * i))
                   /\ n = BFromInt[v[i + 1]]

====
